---- MODULE Spec2Model ----
(***************************************************************************)
(* A model of the watermark remover: the App component (src/App.tsx), the  *)
(* two remote clients removeWatermarkFromImage and generateVideoFromFrame  *)
(* (src/unnamed/part_000, imported as ./services/geminiService) and the    *)
(* file helpers (src/utils/fileUtils.ts).                                  *)
(*                                                                         *)
(* A nullable value of the code is a sequence of length 0 or 1: Null is    *)
(* <<>> and Some(x) is <<x>>.  Every event handler, awaited continuation   *)
(* and timer callback is one action: the state updates a handler queues    *)
(* are applied together, as React batches them before the next event.      *)
(***************************************************************************)
EXTENDS Integers, Sequences, FiniteSets, Bags, TLC

\* ------------------------------------------------------------------ bounds
\* Workflow runs in flight at once (a reset abandons a run, it does not end it).
MaxRuns == 2
\* Status queries one call of generateVideoFromFrame may issue.
MaxPolls == 2
\* Object URLs that may be live at once.
MaxUrls == 3
\* checkApiKey / openSelectKey calls awaiting their answer at once.
MaxPending == 1
\* Parts in one response of the image edit service.
MaxParts == 2
\* Largest frame width and height.
MaxDim == 10
\* Characters in the name of an original file offered to a download button.
MaxName == 4
\* Longest video handed to extractFirstFrame, in tenths of a second.
MaxDuration == 3

\* --------------------------------------------------------------- nullables
Null == <<>>
Some(x) == <<x>>
Val(o) == o[1]

\* ------------------------------------------------------------------- files
\* A File: its name as the sequence of its characters, its MIME type split
\* at '/', and for a video the native size of its frames.
ImgFile == [name |-> <<"a", ".", "p", "n", "g">>, type |-> <<"image", "png">>, size |-> <<0, 0>>]
VidFile == [name |-> <<"b", ".", "m", "o", "v">>, type |-> <<"video", "quicktime">>, size |-> <<MaxDim, 1>>]
TxtFile == [name |-> <<"c", ".", "t", "x", "t">>, type |-> <<"text", "plain">>, size |-> <<0, 0>>]
RawFile == [name |-> <<"d">>, type |-> <<"">>, size |-> <<0, 0>>]
Files == {ImgFile, VidFile, TxtFile, RawFile}

\* file.type.split('/')[0]
fileType(file) == file.type[1]

\* ------------------------------------------------------- localized messages
ErrValidationImage == "validation-image"
ErrValidationVideo == "validation-video"
ErrImage == "image-processing-failed"
ErrVideo == "video-processing-failed"
ErrKeyInvalid == "api-key-invalid"
ErrSelectKey == "cannot-open-key-selector"
MsgExtracting == "extracting"
MsgRemoving == "removing-watermark"
MsgGenerating == "generating-video"

\* ---------------------------------------------- removeWatermarkFromImage
\* A content part of the edit response: a text part or an inlineData part.
TextPart == [inlineData |-> Null]
ImagePart(d) == [inlineData |-> Some([data |-> d])]
Payloads == {"imgA", "imgB"}
Parts == {TextPart} \cup {ImagePart(d) : d \in Payloads \cup {""}}
PartLists == UNION {[1..n -> Parts] : n \in 0..MaxParts}

\* The response of ai.models.generateContent.  The request asks for one
\* candidate, so candidates is absent, empty or holds one candidate, whose
\* content and parts may be absent.
EditResponses ==
    {[candidates |-> Null], [candidates |-> Some(<<>>)],
     [candidates |-> Some(<<[content |-> Null]>>)],
     [candidates |-> Some(<<[content |-> Some([parts |-> Null])]>>)]}
    \cup {[candidates |-> Some(<<[content |-> Some([parts |-> Some(ps)])]>>)] :
            ps \in PartLists}

\* response.candidates?.[0]?.content?.parts || []
responseParts(response) ==
    IF response.candidates = Null THEN <<>>
    ELSE IF Len(Val(response.candidates)) = 0 THEN <<>>
    ELSE LET c == Val(response.candidates)[1] IN
         IF c.content = Null THEN <<>>
         ELSE IF Val(c.content).parts = Null THEN <<>>
         ELSE Val(Val(c.content).parts)

\* The loop without its early return: the last inlineData wins.
lastInlineData(parts) ==
    LET idx == {i \in 1..Len(parts) : parts[i].inlineData # Null} IN
    IF idx = {} THEN Null
    ELSE LET last == CHOOSE i \in idx : \A j \in idx : i >= j IN
         Some(Val(parts[last].inlineData).data)

\* The for loop over the parts: the data of the first part that has
\* inlineData, null when the loop ends without one.
firstInlineData(parts) ==
    LET idx == {i \in 1..Len(parts) : parts[i].inlineData # Null} IN
    IF idx = {} THEN Null
    ELSE LET first == CHOOSE i \in idx : \A j \in idx : i <= j IN
         Some(Val(parts[first].inlineData).data)

\* What the try block of removeWatermarkFromImage returns for a response.
removeWatermarkFromImage(response) == firstInlineData(responseParts(response))

\* if (resultBase64): null and the empty string are falsy.
truthy(result) == result # Null /\ Val(result) # ""

\* The frame test left out.
frameMissingNever(cleanFrameBase64) == FALSE

\* if (!cleanFrameBase64) of the video handler.
frameMissing(cleanFrameBase64) == ~truthy(cleanFrameBase64)

\* `data:${mimeType};base64,${resultBase64}`
dataUrl(mimeType, resultBase64) == [scheme |-> "data", mimeType |-> mimeType, base64 |-> resultBase64]

\* -------------------------------------------------- generateVideoFromFrame
\* ratio >= 1 in place of ratio > 1.
aspectRatioInclusive(width, height) ==
    IF height > 0 /\ width >= height THEN "16:9" ELSE "9:16"

\* ratio = width / height; ratio > 1 ? '16:9' : '9:16'.  For a positive
\* height the quotient exceeds 1 exactly when width exceeds height.
aspectRatio(width, height) == IF height > 0 /\ width > height THEN "16:9" ELSE "9:16"

\* The loop test inverted, and the loop test left out.
loopWhileDone(operation) == operation.done
loopForever(operation) == TRUE

\* while (!operation.done)
loopContinues(operation) == ~operation.done

\* An error message is a sequence of words; includes() is containment of a
\* contiguous run of words.
includes(message, pattern) ==
    \E i \in 0..(Len(message) - Len(pattern)) :
        SubSeq(message, i + 1, i + Len(pattern)) = pattern

NotFoundPhrase == <<"Requested", "entity", "was", "not", "found">>

\* Errors the video service rejects a call with: the service's status and
\* the message of the thrown error (absent for a thrown non-Error value).
RemoteErrors ==
    {[status |-> "NOT_FOUND", message |-> Some(NotFoundPhrase \o <<".">>)],
     [status |-> "NOT_FOUND", message |-> Some(<<"404", ":">> \o NotFoundPhrase)],
     [status |-> "PERMISSION_DENIED", message |-> Some(<<"Requested", "entity", "was", "found">>)],
     [status |-> "RESOURCE_EXHAUSTED", message |-> Some(<<"quota", "exceeded">>)],
     [status |-> "INTERNAL", message |-> Some(<<>>)],
     [status |-> "UNKNOWN", message |-> Null]}

\* The catch block comparing the whole message in place of includes().
veoCatchExact(error) ==
    IF error.message # Null /\ Val(error.message) = NotFoundPhrase
    THEN "API_KEY_INVALID"
    ELSE "Failed to process video with Veo API."

\* The catch block of generateVideoFromFrame: the message of the error it
\* rethrows.
veoCatch(error) ==
    IF error.message # Null /\ Val(error.message) # <<>>
       /\ includes(Val(error.message), NotFoundPhrase)
    THEN "API_KEY_INVALID"
    ELSE "Failed to process video with Veo API."

\* The errors thrown inside the try block that are no remote rejection.
NoLinkError == [status |-> "LOCAL", message |-> Some(<<"Video", "generation", "succeeded", ",", "but", "no", "download", "link", "was", "provided", ".">>)]
DownloadError == [status |-> "LOCAL", message |-> Some(<<"Failed", "to", "download", "the", "generated", "video", ".">>)]
FetchError == [status |-> "NETWORK", message |-> Some(<<"Failed", "to", "fetch">>)]
BodyError == [status |-> "NETWORK", message |-> Some(<<"network", "error">>)]

\* The operation a generateVideos or getVideosOperation call answers with.
Operations ==
    {[done |-> FALSE, uri |-> Null], [done |-> TRUE, uri |-> Some("uri")],
     [done |-> TRUE, uri |-> Null]}

\* The link taken for granted on a done operation.
downloadLinkAssumed(operation) == Some("uri")

\* operation.response?.generatedVideos?.[0]?.video?.uri
downloadLink(operation) == operation.uri

\* Answers of the download fetch: a success response, a non-success
\* response, a rejected fetch.
FetchAnswers == {"ok", "not-ok", "rejected"}

\* ----------------------------------------------------------------- state
VARIABLES
    mode,                 \* useState<AppMode>
    isLoading,            \* useState<boolean>
    error,                \* useState<string | null>
    originalImage,        \* useState<ImageState | null>
    processedImageUrl,    \* useState<string | null>: a data URL
    originalVideo,        \* useState<ImageState | null>
    processedVideoUrl,    \* useState<string | null>: an object URL
    videoLoadingMessage,  \* useState<string>
    apiKeyStatus,         \* useState<ApiKeyStatus>
    dragEvents,           \* the memoized drop handler: the render it closes over
    liveUrls,             \* object URLs created and not revoked
    runs,                 \* the bag of workflow handler invocations in flight
    pendingChecks,        \* hasSelectedApiKey() calls not yet answered
    pendingSelects,       \* openSelectKey() calls not yet answered
    downgraded,           \* history, kept under SpecCredential only: a run's
                          \* invalid-credential failure set the status to
                          \* 'not_selected' and no selection was made since
    hasAistudio,          \* window.aistudio offers its two functions
    apiKey,               \* process.env.API_KEY is set
    veo,                  \* one call of generateVideoFromFrame, on its own
    probe,                \* one call of removeWatermarkFromImage, on its own
    extraction,           \* one call of extractFirstFrame, on its own
    download              \* one rendering of a download button, on its own

vars == <<mode, isLoading, error, originalImage, processedImageUrl, originalVideo,
          processedVideoUrl, videoLoadingMessage, apiKeyStatus, dragEvents, liveUrls,
          runs, pendingChecks, pendingSelects, hasAistudio, apiKey, veo, probe,
          extraction, download, downgraded>>

UrlIds == 1..MaxUrls

\* The local state of one invocation of a workflow handler, before its
\* first stage is called.
NewRun ==
    [kind |-> "none", pc |-> "idle", file |-> Null, dims |-> <<0, 0>>, frame |-> Null,
     stages |-> <<>>, credential |-> "", abandoned |-> FALSE]

InFlight == BagToSet(runs)
replace(bag, run, run1) == (bag (-) SetToBag({run})) (+) SetToBag({run1})
remove(bag, run) == bag (-) SetToBag({run})

\* The four values the reset and the drop handler close over.
closureOf(oi, pi, ov, pv) ==
    [originalImage |-> oi, processedImageUrl |-> pi, originalVideo |-> ov,
     processedVideoUrl |-> pv]

\* The part of the state handleReset reads and writes.
CurState ==
    [originalImage |-> originalImage, processedImageUrl |-> processedImageUrl,
     originalVideo |-> originalVideo, processedVideoUrl |-> processedVideoUrl,
     error |-> error, isLoading |-> isLoading,
     videoLoadingMessage |-> videoLoadingMessage, liveUrls |-> liveUrls]

FreshClosure == closureOf(originalImage, processedImageUrl, originalVideo, processedVideoUrl)

\* The object URLs a closure's values name.  processedImageUrl is a data
\* URL: revoking it releases nothing.
closureUrls(c) ==
    (IF c.originalImage # Null THEN {Val(c.originalImage).url} ELSE {})
    \cup (IF c.originalVideo # Null THEN {Val(c.originalVideo).url} ELSE {})
    \cup (IF c.processedVideoUrl # Null THEN {Val(c.processedVideoUrl)} ELSE {})

\* handleReset without its setIsLoading(false).
handleResetKeepsLoading(c, s) ==
    [originalImage |-> Null, processedImageUrl |-> Null, originalVideo |-> Null,
     processedVideoUrl |-> Null, error |-> Null, isLoading |-> s.isLoading,
     videoLoadingMessage |-> "", liveUrls |-> s.liveUrls \ closureUrls(c)]

\* handleReset, called from the render whose values are c, on the state s.
handleReset(c, s) ==
    [originalImage |-> Null, processedImageUrl |-> Null, originalVideo |-> Null,
     processedVideoUrl |-> Null, error |-> Null, isLoading |-> FALSE,
     videoLoadingMessage |-> "", liveUrls |-> s.liveUrls \ closureUrls(c)]

\* URL.createObjectURL: an identifier that names no other live object.
createObjectURL(live) == CHOOSE u \in UrlIds \ live : \A v \in UrlIds \ live : u <= v

\* Every run in flight when handleReset runs is abandoned by it.
abandon(run) == [run EXCEPT !.abandoned = TRUE]
abandonAll(bag) == BagOfAll(abandon, bag)

AppInit ==
    /\ mode = "image"
    /\ isLoading = FALSE
    /\ error = Null
    /\ originalImage = Null
    /\ processedImageUrl = Null
    /\ originalVideo = Null
    /\ processedVideoUrl = Null
    /\ videoLoadingMessage = ""
    /\ apiKeyStatus = "checking"
    /\ dragEvents = [mode |-> "image", closure |-> closureOf(Null, Null, Null, Null)]
    /\ liveUrls = {}
    /\ runs = EmptyBag
    /\ pendingChecks = 0
    /\ pendingSelects = 0
    /\ hasAistudio \in BOOLEAN
    /\ apiKey \in BOOLEAN

\* The state a handler leaves behind, written to the variables.
Commit(s) ==
    /\ originalImage' = s.originalImage
    /\ processedImageUrl' = s.processedImageUrl
    /\ originalVideo' = s.originalVideo
    /\ processedVideoUrl' = s.processedVideoUrl
    /\ error' = s.error
    /\ isLoading' = s.isLoading
    /\ videoLoadingMessage' = s.videoLoadingMessage
    /\ liveUrls' = s.liveUrls

\* The reset button of the image or video view.
ResetClick ==
    /\ (IF mode = "image" THEN originalImage ELSE originalVideo) # Null
    /\ Commit(handleReset(FreshClosure, CurState))
    /\ runs' = abandonAll(runs)
    /\ UNCHANGED <<mode, apiKeyStatus, dragEvents, pendingChecks, pendingSelects,
                   hasAistudio, apiKey, veo, probe, extraction, download, downgraded>>

\* handleFileChange without the test of the file's type.
handleFileChangeUnchecked(m, c, s, file) ==
    LET s0 == [s EXCEPT !.error = Null]
        s1 == handleReset(c, s0)
        url == createObjectURL(s1.liveUrls)
        asset == Some([file |-> Val(file), url |-> url])
    IN  IF file = Null THEN [state |-> s0, reset |-> FALSE]
        ELSE IF m = "image"
        THEN [state |-> [s1 EXCEPT !.originalImage = asset, !.liveUrls = @ \cup {url}],
              reset |-> TRUE]
        ELSE [state |-> [s1 EXCEPT !.originalVideo = asset, !.liveUrls = @ \cup {url}],
              reset |-> TRUE]

\* handleFileChange(files) called from a render whose mode is m and whose
\* handleReset closes over c, on the state s; file is Null for no file.
\* The result carries reset: whether handleReset was called.
handleFileChange(m, c, s, file) ==
    LET s0 == [s EXCEPT !.error = Null]
        s1 == handleReset(c, s0)
        url == createObjectURL(s1.liveUrls)
        asset == Some([file |-> Val(file), url |-> url])
    IN  IF file = Null THEN [state |-> s0, reset |-> FALSE]
        ELSE IF m = "image" /\ fileType(Val(file)) = "image"
        THEN [state |-> [s1 EXCEPT !.originalImage = asset, !.liveUrls = @ \cup {url}],
              reset |-> TRUE]
        ELSE IF m = "video" /\ fileType(Val(file)) = "video"
        THEN [state |-> [s1 EXCEPT !.originalVideo = asset, !.liveUrls = @ \cup {url}],
              reset |-> TRUE]
        ELSE [state |-> [s0 EXCEPT !.error =
                            Some(IF m = "image" THEN ErrValidationImage ELSE ErrValidationVideo)],
              reset |-> FALSE]

\* renderUploader is shown while the active mode has no original asset.
UploaderShown == (IF mode = "image" THEN originalImage ELSE originalVideo) = Null

\* handleFileChange reaches one of its two URL.createObjectURL calls: a
\* file was offered and its type is the type of the mode m.
createsUrl(m, file) ==
    /\ file # Null
    /\ \/ m = "image" /\ fileType(Val(file)) = "image"
       \/ m = "video" /\ fileType(Val(file)) = "video"

\* The bound on live object URLs, where the call creates one: there is
\* room for it once handleReset has revoked the URLs of c.
urlRoom(m, c, s, file) ==
    createsUrl(m, file) => Cardinality(handleReset(c, s).liveUrls) < MaxUrls

\* The file input's onChange: the handler of the current render.
InputChange(file) ==
    /\ UploaderShown
    /\ urlRoom(mode, FreshClosure, CurState, file)
    /\ LET res == handleFileChange(mode, FreshClosure, CurState, file) IN
        /\ Commit(res.state)
        /\ runs' = IF res.reset THEN abandonAll(runs) ELSE runs
    /\ UNCHANGED <<mode, apiKeyStatus, dragEvents, pendingChecks, pendingSelects,
                   hasAistudio, apiKey, veo, probe, extraction, download, downgraded>>

\* onDrop: the handler memoized by useMemo(..., [mode]), which calls the
\* handleFileChange and handleReset of the render that last changed mode.
Drop(file) ==
    /\ UploaderShown
    /\ urlRoom(dragEvents.mode, dragEvents.closure, CurState, file)
    /\ LET res == handleFileChange(dragEvents.mode, dragEvents.closure, CurState, file) IN
        /\ Commit(res.state)
        /\ runs' = IF res.reset THEN abandonAll(runs) ELSE runs
    /\ UNCHANGED <<mode, apiKeyStatus, dragEvents, pendingChecks, pendingSelects,
                   hasAistudio, apiKey, veo, probe, extraction, download, downgraded>>

\* A tab button: setMode(m); handleReset().  The render that follows
\* rebuilds dragEvents when mode changed, and the effect on [mode] starts
\* checkApiKey when the new mode is 'video'.
TabClick(m) ==
    LET s1 == handleReset(FreshClosure, CurState)
        changed == m # mode
        checks == changed /\ m = "video"
    IN  /\ checks /\ hasAistudio => pendingChecks < MaxPending
        /\ mode' = m
        /\ Commit(s1)
        /\ runs' = abandonAll(runs)
        /\ dragEvents' = IF changed
                         THEN [mode |-> m,
                               closure |-> closureOf(s1.originalImage, s1.processedImageUrl,
                                                     s1.originalVideo, s1.processedVideoUrl)]
                         ELSE dragEvents
        /\ apiKeyStatus' = IF ~checks THEN apiKeyStatus
                           ELSE IF hasAistudio THEN "checking" ELSE "not_selected"
        /\ pendingChecks' = IF checks /\ hasAistudio THEN pendingChecks + 1 ELSE pendingChecks
        /\ UNCHANGED <<pendingSelects, hasAistudio, apiKey, veo, probe, extraction, download, downgraded>>

\* checkApiKey after its await: setApiKeyStatus(hasKey ? ... : ...).
CheckAnswers(hasKey) ==
    /\ pendingChecks > 0
    /\ pendingChecks' = pendingChecks - 1
    /\ apiKeyStatus' = IF hasKey THEN "selected" ELSE "not_selected"
    /\ UNCHANGED <<mode, isLoading, error, originalImage, processedImageUrl, originalVideo,
                   processedVideoUrl, videoLoadingMessage, dragEvents, liveUrls, runs,
                   pendingSelects, hasAistudio, apiKey, veo, probe, extraction, download, downgraded>>

\* renderVideoView is shown in video mode with an original video.
VideoViewShown == mode = "video" /\ originalVideo # Null
ImageViewShown == mode = "image" /\ originalImage # Null

\* ApiKeyPrompt is rendered, and its button enabled.
promptShown(status, loading) == status # "selected" /\ ~loading
promptEnabled(status) == status # "checking"

\* handleSelectKey up to its await.
SelectKeyClick ==
    /\ VideoViewShown
    /\ promptShown(apiKeyStatus, isLoading)
    /\ promptEnabled(apiKeyStatus)
    /\ IF hasAistudio
       THEN /\ pendingSelects < MaxPending
            /\ pendingSelects' = pendingSelects + 1
            /\ UNCHANGED error
       ELSE /\ error' = Some(ErrSelectKey)
            /\ UNCHANGED pendingSelects
    /\ UNCHANGED <<mode, isLoading, originalImage, processedImageUrl, originalVideo,
                   processedVideoUrl, videoLoadingMessage, apiKeyStatus, dragEvents, liveUrls,
                   runs, pendingChecks, hasAistudio, apiKey, veo, probe, extraction, download, downgraded>>

\* handleSelectKey after its await: the optimistic update.
SelectKeyAnswers ==
    /\ pendingSelects > 0
    /\ pendingSelects' = pendingSelects - 1
    /\ apiKeyStatus' = "selected"
    /\ error' = Null
    /\ downgraded' = IF downgraded = "untracked" THEN downgraded ELSE "no"
    /\ UNCHANGED <<mode, isLoading, originalImage, processedImageUrl, originalVideo,
                   processedVideoUrl, videoLoadingMessage, dragEvents, liveUrls, runs,
                   pendingChecks, hasAistudio, apiKey, veo, probe, extraction, download>>

\* ------------------------------------------------------------ workflow runs
\* Messages of the errors that reach a handler's catch block.
ThrownNoKey == "API_KEY environment variable is not set"
ThrownImage == "Failed to process image with Gemini API."
ThrownVeo == "Failed to process video with Veo API."
ThrownKeyInvalid == "API_KEY_INVALID"
ThrownNoImage == "no image returned"
ThrownNoFrame == "cannot remove the watermark from the first frame"
ThrownRead == "file read failed"
ThrownExtract == "frame extraction failed"

\* disabled={isLoading} of the image action button.
imageActionDisabled(loading) == loading

\* The video action button disabled while loading only.
videoActionDisabledLoadingOnly(loading, status) == loading

\* disabled={isLoading || apiKeyStatus !== 'selected'} of the video action button.
videoActionDisabled(loading, status) == loading \/ status # "selected"

\* The catch block without the finally block.
imageCatchNoFinally(s) == [s EXCEPT !.error = Some(ErrImage)]

\* The catch and finally blocks of handleRemoveImageWatermark.
imageCatch(s) == [s EXCEPT !.error = Some(ErrImage), !.isLoading = FALSE]

\* The catch and finally blocks of handleRemoveVideoWatermark, for an error
\* with the given message: the state, and the credential status.
videoCatch(s, status, message) ==
    [state |-> [s EXCEPT !.error = Some(IF message = ThrownKeyInvalid
                                        THEN ErrKeyInvalid ELSE ErrVideo),
                         !.isLoading = FALSE, !.videoLoadingMessage = ""],
     apiKeyStatus |-> IF message = ThrownKeyInvalid THEN "not_selected" ELSE status]

\* The run ends in its catch block with the thrown message.
Fail(run0, run, message) ==
    /\ runs' = remove(runs, run0)
    /\ IF run.kind = "image"
       THEN /\ Commit(imageCatch(CurState))
            /\ UNCHANGED <<apiKeyStatus, downgraded>>
       ELSE LET c == videoCatch(CurState, apiKeyStatus, message) IN
            /\ Commit(c.state)
            /\ apiKeyStatus' = c.apiKeyStatus
            /\ downgraded' = IF downgraded # "untracked" /\ message = ThrownKeyInvalid
                             THEN "yes" ELSE downgraded

Untouched == <<mode, dragEvents, pendingChecks, pendingSelects, hasAistudio, apiKey,
               veo, probe, extraction, download>>

\* handleRemoveImageWatermark up to its first await (fileToBase64).
StartImage ==
    /\ ImageViewShown
    /\ ~imageActionDisabled(isLoading)
    /\ BagCardinality(runs) < MaxRuns
    /\ Commit([CurState EXCEPT !.isLoading = TRUE, !.error = Null,
                               !.processedImageUrl = Null])
    /\ runs' = runs (+) SetToBag({[NewRun EXCEPT !.kind = "image", !.pc = "reading",
                                      !.file = Some(Val(originalImage).file),
                                      !.stages = <<"fileToBase64">>]})
    /\ UNCHANGED <<apiKeyStatus, downgraded>>
    /\ UNCHANGED Untouched

\* removeWatermarkFromImage is called by the run: it throws at once without
\* the environment's key, and otherwise issues the edit request.
CallRemove(run0, run) ==
    LET run1 == [run EXCEPT !.stages = Append(@, "removeWatermarkFromImage")] IN
    IF ~apiKey
    THEN Fail(run0, run1, ThrownNoKey)
    ELSE /\ runs' = replace(runs, run0, [run1 EXCEPT !.pc = "removing"])
         /\ Commit([CurState EXCEPT !.videoLoadingMessage =
                                       IF run.kind = "video" THEN MsgRemoving ELSE @])
         /\ UNCHANGED <<apiKeyStatus, downgraded>>

\* fileToBase64 settles for an image run.
ReadSettles(run, ok) ==
    /\ run.kind = "image" /\ run.pc = "reading"
    /\ IF ok THEN CallRemove(run, run) ELSE Fail(run, run, ThrownRead)
    /\ UNCHANGED Untouched

\* handleRemoveVideoWatermark up to its first await (extractFirstFrame).
StartVideo ==
    /\ VideoViewShown
    /\ ~videoActionDisabled(isLoading, apiKeyStatus)
    /\ BagCardinality(runs) < MaxRuns
    /\ Commit([CurState EXCEPT !.isLoading = TRUE, !.error = Null,
                               !.processedVideoUrl = Null,
                               !.liveUrls = @ \ (IF processedVideoUrl # Null
                                                 THEN {Val(processedVideoUrl)} ELSE {}),
                               !.videoLoadingMessage = MsgExtracting])
    /\ runs' = runs (+) SetToBag({[NewRun EXCEPT !.kind = "video", !.pc = "extracting",
                                      !.file = Some(Val(originalVideo).file),
                                      !.credential = apiKeyStatus,
                                      !.stages = <<"extractFirstFrame">>]})
    /\ UNCHANGED <<apiKeyStatus, downgraded>>
    /\ UNCHANGED Untouched

\* extractFirstFrame settles for a video run: with the frame's width and
\* height, or rejected.
ExtractSettles(run, ok) ==
    /\ run.kind = "video" /\ run.pc = "extracting"
    /\ IF ok THEN CallRemove(run, [run EXCEPT !.dims = Val(run.file).size])
       ELSE Fail(run, run, ThrownExtract)
    /\ UNCHANGED Untouched

\* The edit request of a run is rejected: removeWatermarkFromImage throws.
EditRejects(run) ==
    /\ run.pc = "removing"
    /\ Fail(run, run, ThrownImage)
    /\ UNCHANGED Untouched

\* What removeWatermarkFromImage returns over all responses of the service.
EditResults == {removeWatermarkFromImage(response) : response \in EditResponses}

\* The edit request of a run is answered, and removeWatermarkFromImage
\* returns result.
EditAnswers(run, result) ==
    /\ run.pc = "removing"
    /\ IF run.kind = "image"
       THEN IF truthy(result)
            THEN /\ runs' = remove(runs, run)
                 /\ Commit([CurState EXCEPT
                               !.processedImageUrl =
                                   Some(dataUrl(Val(run.file).type, Val(result))),
                               !.isLoading = FALSE])
                 /\ UNCHANGED <<apiKeyStatus, downgraded>>
            ELSE Fail(run, run, ThrownNoImage)
       ELSE IF frameMissing(result)
            THEN Fail(run, run, ThrownNoFrame)
            ELSE \* generateVideoFromFrame is called
                 /\ runs' = replace(runs, run,
                        [run EXCEPT !.pc = "generating", !.frame = result,
                                    !.stages = Append(@, "generateVideoFromFrame")])
                 /\ Commit([CurState EXCEPT !.videoLoadingMessage = MsgGenerating])
                 /\ UNCHANGED <<apiKeyStatus, downgraded>>
    /\ UNCHANGED Untouched

\* What a call of generateVideoFromFrame ends with when the environment's
\* key is set: the video blob, or one of the two errors of its catch block.
VeoOutcomes == {"blob", ThrownKeyInvalid, ThrownVeo}

\* generateVideoFromFrame settles for a video run.
VeoSettles(run, outcome) ==
    /\ run.pc = "generating"
    /\ IF outcome = "blob"
       THEN /\ Cardinality(liveUrls) < MaxUrls
            /\ LET url == createObjectURL(liveUrls) IN
               Commit([CurState EXCEPT !.processedVideoUrl = Some(url),
                                       !.liveUrls = @ \cup {url},
                                       !.isLoading = FALSE,
                                       !.videoLoadingMessage = ""])
            /\ runs' = remove(runs, run)
            /\ UNCHANGED <<apiKeyStatus, downgraded>>
       ELSE Fail(run, run, outcome)
    /\ UNCHANGED Untouched

Next ==
    \/ ResetClick
    \/ \E file \in {Null} \cup {Some(f) : f \in Files} : InputChange(file)
    \/ \E file \in {Null} \cup {Some(f) : f \in Files} : Drop(file)
    \/ \E m \in {"image", "video"} : TabClick(m)
    \/ \E hasKey \in BOOLEAN : CheckAnswers(hasKey)
    \/ SelectKeyClick
    \/ SelectKeyAnswers
    \/ StartImage
    \/ StartVideo
    \/ \E run \in InFlight, ok \in BOOLEAN : ReadSettles(run, ok)
    \/ \E run \in InFlight, ok \in BOOLEAN : ExtractSettles(run, ok)
    \/ \E run \in InFlight : EditRejects(run)
    \/ \E run \in InFlight, result \in EditResults : EditAnswers(run, result)
    \/ \E run \in InFlight, outcome \in VeoOutcomes : VeoSettles(run, outcome)

VeoIdle == [pc |-> "idle"]
ProbeIdle == [pc |-> "idle"]
ExtractionIdle == [pc |-> "idle"]
DownloadIdle == [pc |-> "idle"]

Init ==
    /\ AppInit
    /\ veo = VeoIdle /\ probe = ProbeIdle
    /\ extraction = ExtractionIdle /\ download = DownloadIdle
    /\ downgraded = "untracked"

Spec == Init /\ [][Next]_vars

\* The App with the history of the credential status kept.
CredentialInit ==
    /\ AppInit
    /\ veo = VeoIdle /\ probe = ProbeIdle
    /\ extraction = ExtractionIdle /\ download = DownloadIdle
    /\ downgraded = "no"

SpecCredential == CredentialInit /\ [][Next]_vars

\* ------------------------------------- generateVideoFromFrame, on its own
\* One call generateVideoFromFrame(imageData, width, height): its arguments,
\* its place in the code, the requests it has issued and how it ended.
VeoCalled(imageBytes, width, height) ==
    [pc |-> "called", imageBytes |-> imageBytes, width |-> width, height |-> height,
     submitted |-> Null, submits |-> 0, queries |-> 0, fetches |-> 0,
     firstDone |-> Null, doneSeen |-> FALSE, cause |-> Null, result |-> Null]

\* A catch block that calls the function again in place of rethrowing.
veoThrowRetries(v, e) == [v EXCEPT !.pc = "called", !.cause = Some(e)]

\* The call throws e inside its try block: the catch block rethrows.
veoThrow(v, e) == [v EXCEPT !.pc = "threw", !.cause = Some(e), !.result = Some(veoCatch(e))]

\* The call continues with an operation the service returned: the loop
\* test, then the download link and the fetch.
veoAfterOperation(v, op) ==
    LET v1 == [v EXCEPT !.doneSeen = op.done] IN
    IF loopContinues(op) THEN [v1 EXCEPT !.pc = "sleeping"]
    ELSE IF downloadLink(op) = Null THEN veoThrow(v1, NoLinkError)
    ELSE [v1 EXCEPT !.pc = "downloading", !.fetches = @ + 1]

VeoFrame == <<mode, isLoading, error, originalImage, processedImageUrl, originalVideo,
              processedVideoUrl, videoLoadingMessage, apiKeyStatus, dragEvents, liveUrls,
              runs, pendingChecks, pendingSelects, hasAistudio, apiKey, probe,
              extraction, download, downgraded>>

\* The function up to its first await: the key check, the aspect ratio and
\* the job-creation call.
VeoStart ==
    /\ veo.pc = "called"
    /\ veo' = IF ~apiKey
              THEN [veo EXCEPT !.pc = "threw", !.result = Some(ThrownNoKey)]
              ELSE [veo EXCEPT !.pc = "submitting", !.submits = @ + 1,
                               !.submitted = Some([imageBytes |-> veo.imageBytes,
                                   aspectRatio |-> aspectRatio(veo.width, veo.height)])]
    /\ UNCHANGED VeoFrame

\* ai.models.generateVideos answers with an operation.
VeoSubmitAnswers(op) ==
    /\ veo.pc = "submitting"
    /\ veo' = veoAfterOperation([veo EXCEPT !.firstDone = Some(op.done)], op)
    /\ UNCHANGED VeoFrame

\* ai.models.generateVideos rejects.
VeoSubmitRejects(e) ==
    /\ veo.pc = "submitting"
    /\ veo' = veoThrow(veo, e)
    /\ UNCHANGED VeoFrame

\* The 10 s timer of the poll loop fires: getVideosOperation is called.
VeoTimerFires ==
    /\ veo.pc = "sleeping"
    /\ veo.queries < MaxPolls
    /\ veo' = [veo EXCEPT !.pc = "polling", !.queries = @ + 1]
    /\ UNCHANGED VeoFrame

\* getVideosOperation answers with an operation.
VeoPollAnswers(op) ==
    /\ veo.pc = "polling"
    /\ veo' = veoAfterOperation(veo, op)
    /\ UNCHANGED VeoFrame

\* getVideosOperation rejects.
VeoPollRejects(e) ==
    /\ veo.pc = "polling"
    /\ veo' = veoThrow(veo, e)
    /\ UNCHANGED VeoFrame

\* The download fetch settles: a success response goes on to await
\* response.blob(), a non-success response to await response.text(), and a
\* rejected fetch throws.
VeoFetchAnswers(answer) ==
    /\ veo.pc = "downloading"
    /\ veo' = IF answer = "ok" THEN [veo EXCEPT !.pc = "reading"]
              ELSE IF answer = "not-ok" THEN [veo EXCEPT !.pc = "draining"]
              ELSE veoThrow(veo, FetchError)
    /\ UNCHANGED VeoFrame

\* response.blob() settles: the blob is returned, or the rejection is
\* thrown into the catch block.
VeoBlobSettles(ok) ==
    /\ veo.pc = "reading"
    /\ veo' = IF ok THEN [veo EXCEPT !.pc = "returned", !.result = Some("blob")]
              ELSE veoThrow(veo, BodyError)
    /\ UNCHANGED VeoFrame

\* response.text() of a non-success response settles: the download error
\* is thrown, or the rejection of the body read.
VeoTextSettles(ok) ==
    /\ veo.pc = "draining"
    /\ veo' = veoThrow(veo, IF ok THEN DownloadError ELSE BodyError)
    /\ UNCHANGED VeoFrame

VeoInit ==
    /\ AppInit
    /\ hasAistudio
    /\ probe = ProbeIdle /\ extraction = ExtractionIdle /\ download = DownloadIdle
    /\ downgraded = "untracked"
    /\ veo \in {VeoCalled(b, w, h) : b \in Payloads, w \in 1..MaxDim, h \in 1..MaxDim}

VeoNext ==
    \/ VeoStart
    \/ \E op \in Operations : VeoSubmitAnswers(op)
    \/ \E e \in RemoteErrors : VeoSubmitRejects(e)
    \/ VeoTimerFires
    \/ \E op \in Operations : VeoPollAnswers(op)
    \/ \E e \in RemoteErrors : VeoPollRejects(e)
    \/ \E answer \in FetchAnswers : VeoFetchAnswers(answer)
    \/ \E ok \in BOOLEAN : VeoBlobSettles(ok)
    \/ \E ok \in BOOLEAN : VeoTextSettles(ok)

SpecVeo == VeoInit /\ [][VeoNext]_vars

\* ----------------------------------- removeWatermarkFromImage, on its own
\* The edit service rejects the request.
Rejected == [rejected |-> TRUE]

ProbeFrame == <<mode, isLoading, error, originalImage, processedImageUrl, originalVideo,
                processedVideoUrl, videoLoadingMessage, apiKeyStatus, dragEvents, liveUrls,
                runs, pendingChecks, pendingSelects, hasAistudio, apiKey, veo,
                extraction, download, downgraded>>

\* removeWatermarkFromImage up to its await: the key check and the request.
RemoveStart ==
    /\ probe.pc = "called"
    /\ probe' = IF ~apiKey
                THEN [probe EXCEPT !.pc = "threw", !.result = Some(ThrownNoKey)]
                ELSE [probe EXCEPT !.pc = "awaiting", !.requests = @ + 1]
    /\ UNCHANGED ProbeFrame

\* The request is answered as probe.answer says.
RemoveAnswers ==
    /\ probe.pc = "awaiting"
    /\ probe' = IF probe.answer = Rejected
                THEN [probe EXCEPT !.pc = "threw", !.result = Some(ThrownImage)]
                ELSE [probe EXCEPT !.pc = "returned",
                                   !.result = removeWatermarkFromImage(probe.answer)]
    /\ UNCHANGED ProbeFrame

RemoveInit ==
    /\ AppInit
    /\ hasAistudio
    /\ veo = VeoIdle /\ extraction = ExtractionIdle /\ download = DownloadIdle
    /\ downgraded = "untracked"
    /\ probe \in {[pc |-> "called", answer |-> a, requests |-> 0, result |-> Null] :
                    a \in EditResponses \cup {Rejected}}

RemoveNext == RemoveStart \/ RemoveAnswers

SpecRemove == RemoveInit /\ [][RemoveNext]_vars

\* ------------------------------ the remote calls of one video run, in full
\* The two remote stages of handleRemoveVideoWatermark with the calls they
\* issue: removeWatermarkFromImage on the extracted frame, then, when it
\* returned a frame, generateVideoFromFrame on that frame.
CallVeo ==
    /\ probe.pc = "returned"
    /\ ~frameMissing(probe.result)
    /\ veo.pc = "idle"
    /\ veo' = VeoCalled(Val(probe.result), VidFile.size[1], VidFile.size[2])
    /\ UNCHANGED VeoFrame

CallsInit ==
    /\ AppInit
    /\ hasAistudio
    /\ veo = VeoIdle /\ extraction = ExtractionIdle /\ download = DownloadIdle
    /\ downgraded = "untracked"
    /\ probe \in {[pc |-> "called", answer |-> a, requests |-> 0, result |-> Null] :
                    a \in EditResponses \cup {Rejected}}

CallsNext == RemoveNext \/ CallVeo \/ VeoNext

SpecCalls == CallsInit /\ [][CallsNext]_vars

\* ---------------------------------------------- extractFirstFrame, on its own
\* video.currentTime = 0.1, in tenths of a second.
SeekOffset == 1

\* What the promise is settled with: the frame (its size, and the playback
\* position it was drawn at) or an error.
Frame(width, height, at) == [kind |-> "frame", width |-> width, height |-> height, at |-> at]
Failure(message) == [kind |-> message, width |-> 0, height |-> 0, at |-> 0]

\* One call extractFirstFrame(videoFile) after its executor has run: the
\* file's native frame size and duration, whether a canvas context is to
\* be had, the video element and its object URL, the promise of play(),
\* the resolved flag, and what cleanup and resolve/reject have done.
ExtractionCalled(size, duration, context) ==
    [pc |-> "called", native |-> size, duration |-> duration, context |-> context,
     urlLive |-> FALSE, src |-> FALSE, paused |-> TRUE,
     loaded |-> FALSE, videoWidth |-> 0, videoHeight |-> 0, currentTime |-> 0,
     seeking |-> FALSE, seekedQueued |-> FALSE, requested |-> FALSE, play |-> "none",
     resolved |-> FALSE, cleanups |-> 0, settles |-> 0, promise |-> Null, dirty |-> FALSE]

\* cleanup without URL.revokeObjectURL.
cleanupKeepsUrl(x) ==
    [x EXCEPT !.paused = TRUE, !.src = FALSE, !.loaded = FALSE, !.seeking = FALSE,
              !.seekedQueued = FALSE, !.videoWidth = 0, !.videoHeight = 0, !.currentTime = 0,
              !.cleanups = @ + 1]

\* cleanup: pause(), removeAttribute('src') and load(), which empty the
\* element and drop the events it had queued, then revokeObjectURL.
cleanup(x) ==
    [x EXCEPT !.paused = TRUE, !.src = FALSE, !.loaded = FALSE, !.seeking = FALSE,
              !.seekedQueued = FALSE, !.videoWidth = 0, !.videoHeight = 0, !.currentTime = 0,
              !.urlLive = FALSE, !.cleanups = @ + 1]

\* resolve(outcome) or reject(outcome): the first call settles the promise.
\* dirty records a call made while the element or its URL was not released.
settle(x, outcome) ==
    [x EXCEPT !.settles = @ + 1,
              !.promise = IF @ = Null THEN Some(outcome) ELSE @,
              !.dirty = @ \/ x.urlLive \/ x.src \/ ~x.paused]

\* A seek to t ends at t, or at the end of a shorter video.
seekPosition(t, duration) == IF t > duration THEN duration ELSE t

\* onloadeddata seeking to the start.
onloadeddataAtStart(x) ==
    [x EXCEPT !.currentTime = seekPosition(0, x.duration), !.seeking = TRUE,
              !.requested = TRUE]

\* video.onloadeddata
onloadeddata(x) ==
    [x EXCEPT !.currentTime = seekPosition(SeekOffset, x.duration), !.seeking = TRUE,
              !.requested = TRUE]

\* video.onseeked
onseeked(x) ==
    IF x.resolved THEN x
    ELSE LET x1 == [x EXCEPT !.resolved = TRUE] IN
         IF ~x1.context
         THEN settle(cleanup(x1), Failure("Could not get canvas context."))
         ELSE settle(cleanup(x1), Frame(x1.videoWidth, x1.videoHeight, x1.currentTime))

\* video.onerror
onerror(x) ==
    IF x.resolved THEN x ELSE settle(cleanup(x), Failure("media error"))

\* video.play().catch(...)
playCatch(x) ==
    IF x.resolved THEN x ELSE settle(cleanup(x), Failure("play rejected"))

ExtractionFrame == <<mode, isLoading, error, originalImage, processedImageUrl, originalVideo,
                     processedVideoUrl, videoLoadingMessage, apiKeyStatus, dragEvents,
                     liveUrls, runs, pendingChecks, pendingSelects, hasAistudio, apiKey,
                     veo, probe, download, downgraded>>

\* The executor of the promise: the element, its object URL and source,
\* the handlers, and play().
ExtractStart ==
    /\ extraction.pc = "called"
    /\ extraction' = [extraction EXCEPT !.pc = "started", !.urlLive = TRUE, !.src = TRUE,
                                         !.paused = FALSE, !.play = "pending"]
    /\ UNCHANGED ExtractionFrame

\* The first frame is decoded: the element knows the frame size and fires
\* loadeddata.
LoadedData ==
    /\ extraction.pc = "started" /\ extraction.src /\ ~extraction.loaded
    /\ extraction' = onloadeddata([extraction EXCEPT
                                      !.loaded = TRUE,
                                      !.videoWidth = extraction.native[1],
                                      !.videoHeight = extraction.native[2]])
    /\ UNCHANGED ExtractionFrame

\* The requested seek completes: the element queues its seeked event and
\* playback goes on from the new position.
SeekCompletes ==
    /\ extraction.pc = "started" /\ extraction.src /\ extraction.seeking
    /\ extraction' = [extraction EXCEPT !.seeking = FALSE, !.seekedQueued = TRUE]
    /\ UNCHANGED ExtractionFrame

\* The element fires the queued seeked event.
Seeked ==
    /\ extraction.pc = "started" /\ extraction.src /\ extraction.seekedQueued
    /\ extraction' = onseeked([extraction EXCEPT !.seekedQueued = FALSE])
    /\ UNCHANGED ExtractionFrame

\* The element fails to load or decode its source: it fires error.
MediaError ==
    /\ extraction.pc = "started" /\ extraction.src
    /\ extraction' = onerror(extraction)
    /\ UNCHANGED ExtractionFrame

\* Playback starts: the promise of play() is fulfilled.
PlayFulfils ==
    /\ extraction.pc = "started" /\ extraction.play = "pending"
    /\ extraction.src /\ extraction.loaded
    /\ extraction' = [extraction EXCEPT !.play = "fulfilled"]
    /\ UNCHANGED ExtractionFrame

\* The promise of play() is rejected: playback not allowed, the source not
\* supported, or the pending promise aborted by the pause() and load() of
\* cleanup.
PlayRejects ==
    /\ extraction.pc = "started" /\ extraction.play = "pending"
    /\ extraction' = playCatch([extraction EXCEPT !.play = "rejected"])
    /\ UNCHANGED ExtractionFrame

\* Playback advances by a tenth of a second.
Plays ==
    /\ extraction.pc = "started" /\ extraction.play = "fulfilled"
    /\ extraction.src /\ ~extraction.paused /\ ~extraction.seeking
    /\ extraction.currentTime < extraction.duration
    /\ extraction' = [extraction EXCEPT !.currentTime = @ + 1]
    /\ UNCHANGED ExtractionFrame

FrameSizes == {<<MaxDim, 1>>, <<1, MaxDim>>, <<1, 1>>}

FrameInit ==
    /\ AppInit
    /\ hasAistudio /\ apiKey
    /\ veo = VeoIdle /\ probe = ProbeIdle /\ download = DownloadIdle
    /\ downgraded = "untracked"
    /\ extraction \in {ExtractionCalled(size, duration, context) :
                        size \in FrameSizes, duration \in 1..MaxDuration,
                        context \in BOOLEAN}

FrameNext ==
    \/ ExtractStart
    \/ LoadedData
    \/ SeekCompletes
    \/ Seeked
    \/ MediaError
    \/ PlayFulfils
    \/ PlayRejects
    \/ Plays

SpecFrame == FrameInit /\ [][FrameNext]_vars

\* ------------------------------------------------ download names, on their own
\* Names over two letters and the dot.
Chars == {"a", "b", "."}
Names == UNION {[1..n -> Chars] : n \in 0..MaxName}

\* name.split(sep): the pieces between the separators, at least one piece.
RECURSIVE split(_, _)
split(name, sep) ==
    IF \A i \in 1..Len(name) : name[i] # sep THEN <<name>>
    ELSE LET first == CHOOSE i \in 1..Len(name) :
                          name[i] = sep /\ \A j \in 1..(i - 1) : name[j] # sep
         IN  <<SubSeq(name, 1, first - 1)>> \o split(SubSeq(name, first + 1, Len(name)), sep)

\* pieces.slice(0, -1): all pieces but the last.
sliceButLast(pieces) == SubSeq(pieces, 1, Len(pieces) - 1)

\* pieces.join(sep)
RECURSIVE join(_, _)
join(pieces, sep) ==
    IF Len(pieces) = 0 THEN <<>>
    ELSE IF Len(pieces) = 1 THEN pieces[1]
    ELSE pieces[1] \o <<sep>> \o join(Tail(pieces), sep)

NamePrefix == <<"watermark-removed-">>
Mp4 == <<".", "mp4">>

\* fileName of the image view's DownloadButton.
imageFileName(name) == NamePrefix \o name

\* fileName of the video view's DownloadButton.
videoFileName(name) == NamePrefix \o join(sliceButLast(split(name, ".")), ".") \o Mp4

DownloadFrame == <<mode, isLoading, error, originalImage, processedImageUrl, originalVideo,
                   processedVideoUrl, videoLoadingMessage, apiKeyStatus, dragEvents,
                   liveUrls, runs, pendingChecks, pendingSelects, hasAistudio, apiKey,
                   veo, probe, extraction, downgraded>>

\* The view renders its DownloadButton for the original's name.
RenderDownload ==
    /\ download.pc = "processed"
    /\ download' = [download EXCEPT
                       !.pc = "rendered",
                       !.fileName = Some(IF download.view = "image"
                                         THEN imageFileName(download.name)
                                         ELSE videoFileName(download.name))]
    /\ UNCHANGED DownloadFrame

DownloadInit ==
    /\ AppInit
    /\ hasAistudio /\ apiKey
    /\ veo = VeoIdle /\ probe = ProbeIdle /\ extraction = ExtractionIdle
    /\ downgraded = "untracked"
    /\ download \in {[pc |-> "processed", view |-> v, name |-> n, fileName |-> Null] :
                      v \in {"image", "video"}, n \in Names}

DownloadNext == RenderDownload

SpecDownload == DownloadInit /\ [][DownloadNext]_vars

\* ------------------------------------------- one run, from start to end
\* The App right after the action button started a run on a fresh upload:
\* an image run in image mode, or a video run in video mode with the
\* credential selected.
RunInit ==
    /\ error = Null /\ isLoading = TRUE
    /\ processedImageUrl = Null /\ processedVideoUrl = Null
    /\ liveUrls = {1}
    /\ pendingChecks = 0 /\ pendingSelects = 0
    /\ apiKey \in BOOLEAN
    /\ veo = VeoIdle /\ probe = ProbeIdle
    /\ extraction = ExtractionIdle /\ download = DownloadIdle
    /\ downgraded = "untracked"
    /\ \/ /\ mode = "image"
          /\ hasAistudio \in BOOLEAN
          /\ apiKeyStatus = "checking"
          /\ originalImage = Some([file |-> ImgFile, url |-> 1])
          /\ originalVideo = Null
          /\ videoLoadingMessage = ""
          /\ dragEvents = [mode |-> "image", closure |-> closureOf(Null, Null, Null, Null)]
          /\ runs = SetToBag({[NewRun EXCEPT !.kind = "image", !.pc = "reading",
                                             !.file = Some(ImgFile),
                                             !.stages = <<"fileToBase64">>]})
       \/ /\ mode = "video"
          /\ hasAistudio = TRUE
          /\ apiKeyStatus = "selected"
          /\ originalImage = Null
          /\ originalVideo = Some([file |-> VidFile, url |-> 1])
          /\ videoLoadingMessage = MsgExtracting
          /\ dragEvents = [mode |-> "video", closure |-> closureOf(Null, Null, Null, Null)]
          /\ runs = SetToBag({[NewRun EXCEPT !.kind = "video", !.pc = "extracting",
                                             !.file = Some(VidFile),
                                             !.credential = "selected",
                                             !.stages = <<"extractFirstFrame">>]})

\* The run calls generateVideoFromFrame with the clean frame and the size
\* of the extracted frame.
RunCallsVeo(run) ==
    /\ run.pc = "generating"
    /\ veo.pc = "idle"
    /\ veo' = VeoCalled(Val(run.frame), run.dims[1], run.dims[2])
    /\ UNCHANGED VeoFrame

\* A status query is answered, by a job that reports done at the latest
\* when the last query the bound allows is answered.
VeoPollAnswersInTime(op) ==
    /\ veo.pc = "polling"
    /\ veo.queries < MaxPolls \/ op.done
    /\ VeoPollAnswers(op)

\* The call of generateVideoFromFrame has ended: the run goes on with what
\* it returned or threw.
RunVeoSettles(run) ==
    /\ veo.pc \in {"returned", "threw"}
    /\ VeoSettles(run, Val(veo.result))

RunNext ==
    \/ \E run \in InFlight, ok \in BOOLEAN : ReadSettles(run, ok)
    \/ \E run \in InFlight, ok \in BOOLEAN : ExtractSettles(run, ok)
    \/ \E run \in InFlight : EditRejects(run)
    \/ \E run \in InFlight, result \in EditResults : EditAnswers(run, result)
    \/ \E run \in InFlight : RunCallsVeo(run)
    \/ VeoStart
    \/ \E op \in Operations : VeoSubmitAnswers(op)
    \/ \E e \in RemoteErrors : VeoSubmitRejects(e)
    \/ VeoTimerFires
    \/ \E op \in Operations : VeoPollAnswersInTime(op)
    \/ \E e \in RemoteErrors : VeoPollRejects(e)
    \/ \E answer \in FetchAnswers : VeoFetchAnswers(answer)
    \/ \E ok \in BOOLEAN : VeoBlobSettles(ok)
    \/ \E ok \in BOOLEAN : VeoTextSettles(ok)
    \/ \E run \in InFlight : RunVeoSettles(run)

\* Every awaited operation answers, every timer fires and every
\* continuation runs: no step of the run stays enabled forever untaken.
SpecRun == RunInit /\ [][RunNext]_vars /\ WF_vars(RunNext)

\* ------------------------------------------------------------------ claims
\* Steps of the runs, read off the bag before and after a step.  A reset
\* turns a run into its abandoned copy; any other step that takes a copy
\* of a run away is the run's own continuation.
Stepped(run) ==
    /\ CopiesIn(run, runs') < CopiesIn(run, runs)
    /\ run.abandoned \/ CopiesIn(abandon(run), runs') = CopiesIn(abandon(run), runs)
Ended(run) == Stepped(run) /\ BagCardinality(runs') < BagCardinality(runs)
Advanced(run, run2) ==
    /\ Stepped(run)
    /\ BagCardinality(runs') = BagCardinality(runs)
    /\ CopiesIn(run2, runs') > CopiesIn(run2, runs)

Idle(s) ==
    /\ s.originalImage = Null /\ s.processedImageUrl = Null
    /\ s.originalVideo = Null /\ s.processedVideoUrl = Null
    /\ s.error = Null /\ s.isLoading = FALSE /\ s.videoLoadingMessage = ""

\* The object URLs the state holds.
HeldUrls ==
    {u \in UrlIds : \/ originalImage # Null /\ Val(originalImage).url = u
                    \/ originalVideo # Null /\ Val(originalVideo).url = u
                    \/ processedVideoUrl = Some(u)}

\* C1: when the awaited call of a run that a reset has abandoned resolves
\* or rejects, processedImageUrl, processedVideoUrl and error stay as they
\* are: no outcome of an abandoned run is committed to the state.
C1_LateOutcomeDiscarded ==
    [][\A run \in InFlight :
          run.abandoned /\ Stepped(run)
          => UNCHANGED <<processedImageUrl, processedVideoUrl, error>>]_vars

\* C2: a reset (the reset button, a tab button) from any state yields the
\* idle state, every object URL the state held is revoked, and a second
\* reset right after it changes nothing.
C2_ResetYieldsIdle ==
    [][(ResetClick \/ \E m \in {"image", "video"} : TabClick(m))
       => /\ Idle(CurState')
          /\ HeldUrls \cap liveUrls' = {}
          /\ handleReset(FreshClosure', CurState') = CurState']_vars

\* A reset has acted on a running state: the state is idle while the run
\* it abandoned is still in flight.
C2_Witness == Idle(CurState) /\ \E run \in InFlight : run.abandoned

\* The call awaits the download fetch or the read of its response's body.
Fetching(v) == v.pc \in {"downloading", "reading", "draining"}

\* C3 as stated: every call whose job-creation call succeeded has issued
\* at least one status query by the time it ends.
C3_AtLeastOneQuery ==
    veo.pc \in {"returned", "threw"} /\ veo.firstDone # Null => veo.queries >= 1

\* C3 amended: a call whose submission returned a job that is not done has
\* issued at least one status query by the time it fetches or ends, and a
\* call whose submission returned a done job never issues one.
C3_QueryIffSubmissionPending ==
    /\ (Fetching(veo) \/ veo.pc \in {"returned", "threw"}) /\ veo.firstDone = Some(FALSE)
       => veo.queries >= 1
    /\ veo.firstDone = Some(TRUE) => veo.queries = 0 /\ veo.pc \notin {"sleeping", "polling"}

\* The submission returned a done job and the call returned the video
\* without a status query.
C3_Witness == veo.pc = "returned" /\ veo.firstDone = Some(TRUE) /\ veo.queries = 0

\* C4: once a response reports the job done the loop neither waits nor
\* queries again, and the download link is read and the fetch issued only
\* after a response that reported done.
C4_NoQueryAfterDone ==
    /\ veo.pc \in {"sleeping", "polling"} => ~veo.doneSeen
    /\ veo.fetches > 0 \/ Fetching(veo) \/ veo.pc = "returned" => veo.doneSeen
    /\ veo.cause = Some(NoLinkError) => veo.doneSeen
    /\ veo.fetches <= 1

\* A status query was answered done and the fetch is under way.
C4_Witness == veo.pc = "downloading" /\ veo.queries >= 1 /\ veo.doneSeen

\* C5: a call that fails ends with API_KEY_INVALID exactly when the
\* service rejected the job-creation call or a status query with an
\* entity-not-found error; every other failure ends with another message.
C5_NotFoundIsInvalidKey ==
    veo.pc = "threw"
    => (veo.result = Some(ThrownKeyInvalid)
        <=> veo.cause # Null /\ Val(veo.cause).status = "NOT_FOUND")

\* A status query was rejected with an entity-not-found error.
C5_Witness ==
    /\ veo.pc = "threw" /\ veo.queries >= 1
    /\ veo.cause # Null /\ Val(veo.cause).status = "NOT_FOUND"
    /\ veo.result = Some(ThrownKeyInvalid)

\* C6: in video mode while the credential status is not 'selected' the
\* generation action cannot start a run, and every video run in flight,
\* hence every remote call one issues, was started with the status
\* 'selected'.
C6_NoRunWithoutCredential ==
    /\ apiKeyStatus # "selected" => ~ENABLED StartVideo
    /\ \A run \in InFlight : run.kind = "video" => run.credential = "selected"

\* The video view is shown with a video loaded and no credential selected.
C6_Witness ==
    /\ VideoViewShown /\ ~isLoading /\ runs = EmptyBag
    /\ apiKeyStatus = "not_selected"

\* The stages a video run has invoked at each place, and the label it sets
\* on entering it.
StagesAt(pc) ==
    IF pc = "extracting" THEN <<"extractFirstFrame">>
    ELSE IF pc = "removing" THEN <<"extractFirstFrame", "removeWatermarkFromImage">>
    ELSE <<"extractFirstFrame", "removeWatermarkFromImage", "generateVideoFromFrame">>
LabelAt(pc) ==
    IF pc = "extracting" THEN MsgExtracting
    ELSE IF pc = "removing" THEN MsgRemoving ELSE MsgGenerating

\* C7: a video run invokes extractFirstFrame, removeWatermarkFromImage and
\* generateVideoFromFrame in this order, each with the complete output of
\* the one before, and sets the label of each stage as it enters it; a run
\* that ends before the last stage has returned ends failed, with the later
\* stages not invoked.
C7_StagesInOrder ==
    /\ [](\A run \in InFlight : run.kind = "video" =>
            /\ run.pc \in {"extracting", "removing", "generating"}
            /\ run.stages = StagesAt(run.pc)
            /\ run.pc \in {"removing", "generating"} => run.dims = Val(run.file).size
            /\ run.pc = "generating" => run.frame # Null /\ Val(run.frame) \in Payloads)
    /\ [][\A run \in InFlight : run.kind = "video" =>
            /\ \A run2 \in BagToSet(runs') :
                  Advanced(run, run2) =>
                    /\ <<run.pc, run2.pc>> \in {<<"extracting", "removing">>,
                                                 <<"removing", "generating">>}
                    /\ videoLoadingMessage' = LabelAt(run2.pc)
            /\ Ended(run) /\ processedVideoUrl' = processedVideoUrl =>
                    /\ error' \in {Some(ErrVideo), Some(ErrKeyInvalid)}
                    /\ isLoading' = FALSE /\ videoLoadingMessage' = ""
            /\ Ended(run) /\ run.pc # "generating" =>
                    processedVideoUrl' = processedVideoUrl]_vars

\* A video run has reached its last stage.
C7_Witness ==
    \E run \in InFlight :
        /\ run.kind = "video" /\ run.pc = "generating" /\ ~run.abandoned
        /\ videoLoadingMessage = MsgGenerating /\ isLoading

\* The data of the image parts of a response, in their order.
ImageData(response) ==
    LET cs == IF response.candidates = Null THEN <<>> ELSE Val(response.candidates)
        ps == IF cs = <<>> \/ cs[1].content = Null THEN <<>>
              ELSE IF Val(cs[1].content).parts = Null THEN <<>>
              ELSE Val(Val(cs[1].content).parts)
        images == SelectSeq(ps, LAMBDA part : part.inlineData # Null)
    IN  [i \in 1..Len(images) |-> Val(images[i].inlineData).data]

\* C8: for a response without an image part removeWatermarkFromImage
\* returns null, neither throwing nor returning a payload; for a response
\* with image parts it returns the data of the first of them.
C8_NoImageIsNull ==
    probe.pc \in {"returned", "threw"} /\ probe.requests = 1 /\ probe.answer # Rejected
    => /\ probe.pc = "returned"
       /\ probe.result = IF ImageData(probe.answer) = <<>> THEN Null
                         ELSE Some(ImageData(probe.answer)[1])

\* A response whose parts are all text parts was answered with null.
C8_Witness ==
    /\ probe.pc = "returned" /\ probe.result = Null
    /\ probe.answer # Rejected /\ Len(responseParts(probe.answer)) = MaxParts

\* C9: the submitted preset is 16:9 exactly when width > height and 9:16
\* otherwise, so wide for 1920x1080 and tall for 1080x1920 and for a square.
C9_AspectPreset ==
    /\ veo.submitted # Null =>
          Val(veo.submitted).aspectRatio = (IF veo.width > veo.height THEN "16:9" ELSE "9:16")
    /\ aspectRatio(1920, 1080) = "16:9"
    /\ aspectRatio(1080, 1920) = "9:16"
    /\ aspectRatio(1080, 1080) = "9:16"

\* A square frame was submitted with the tall preset.
C9_Witness ==
    /\ veo.submitted # Null /\ veo.width = veo.height
    /\ Val(veo.submitted).aspectRatio = "9:16"

\* The final step of an image run that fails: the error message is set,
\* the loading flag cleared and no processed output committed.
ImageRunFails ==
    /\ error' = Some(ErrImage)
    /\ isLoading' = FALSE
    /\ processedImageUrl' = processedImageUrl

\* C10: an image run that no reset has abandoned ends by committing the
\* data URL of exactly the bytes removeWatermarkFromImage returned, when it
\* returned an image; when it returned null or nothing usable, or a call
\* threw, it ends with the error message and commits no processed output.
C10_ImageRunOutcome ==
    [][\A run \in InFlight : run.kind = "image" /\ ~run.abandoned =>
          /\ \A result \in EditResults :
                EditAnswers(run, result) =>
                  IF result # Null /\ Val(result) \in Payloads
                  THEN /\ processedImageUrl' # Null
                       /\ Val(processedImageUrl').base64 = Val(result)
                       /\ Val(processedImageUrl').mimeType = Val(run.file).type
                       /\ error' = error /\ isLoading' = FALSE
                  ELSE ImageRunFails
          /\ EditRejects(run) \/ ReadSettles(run, FALSE) => ImageRunFails
          /\ Ended(run) /\ run.pc = "reading" => ImageRunFails
          /\ Ended(run) => ~isLoading']_vars

\* An image run has ended in succeeded: the output is shown next to the
\* original, with no error and nothing in flight.
C10_Witness ==
    /\ ImageViewShown /\ processedImageUrl # Null /\ error = Null
    /\ ~isLoading /\ runs = EmptyBag

\* C11: when an answer reports the job done without a download link the
\* call throws the missing-link error inside its try block and ends
\* rejected by the catch block: it returns neither null nor a payload and
\* issues no download fetch.
C11_NoLinkFails ==
    /\ [](veo.cause = Some(NoLinkError) =>
            /\ veo.pc = "threw" /\ veo.doneSeen
            /\ veo.result = Some(ThrownVeo)
            /\ veo.fetches = 0)
    /\ [][\A op \in Operations :
            (VeoSubmitAnswers(op) \/ VeoPollAnswers(op)) /\ op.done /\ op.uri = Null
            => /\ veo'.pc = "threw"
               /\ veo'.cause = Some(NoLinkError)
               /\ veo'.result \notin {Null, Some("blob")}
               /\ veo'.fetches = 0]_vars

\* A status query was answered done without a link, and the call threw.
C11_Witness ==
    /\ veo.pc = "threw" /\ veo.cause = Some(NoLinkError)
    /\ veo.queries >= 1 /\ veo.fetches = 0

\* C12: a video run that ends with the invalid-credential error sets the
\* credential status to 'not_selected', a video run that ends with any
\* other error leaves the status as it is, and after such a downgrade the
\* status becomes 'selected' again, so that the action is enabled again,
\* only by the answer of a credential selection the user made.
C12_BlockedUntilSelection ==
    [][/\ \A run \in InFlight :
            /\ VeoSettles(run, ThrownKeyInvalid) =>
                  apiKeyStatus' = "not_selected" /\ error' = Some(ErrKeyInvalid)
            /\ run.kind = "video" /\ Ended(run) /\ error' = Some(ErrVideo) =>
                  apiKeyStatus' = apiKeyStatus
       /\ downgraded = "yes" /\ apiKeyStatus' = "selected" => SelectKeyAnswers]_vars

\* The remote requests a video run has issued: edit requests, job-creation
\* calls, status queries and download fetches.
Issued ==
    IF veo.pc = "idle" THEN <<probe.requests, 0, 0, 0>>
    ELSE <<probe.requests, veo.submits, veo.queries, veo.fetches>>

\* The run has failed: a remote stage threw, or the edit stage returned no
\* frame.
RunFailed ==
    \/ probe.pc = "threw"
    \/ probe.pc = "returned" /\ frameMissing(probe.result)
    \/ veo.pc = "threw"

\* C13: one run issues the image edit request, the job-creation call and
\* the download fetch at most once each, and once the run has failed it
\* issues no further remote call: a later stage is not entered and a
\* failed call is not repeated.
C13_NoRetries ==
    /\ [](/\ Issued[1] <= 1 /\ Issued[2] <= 1 /\ Issued[4] <= 1
          /\ RunFailed /\ veo.pc # "threw" => veo.pc = "idle")
    /\ [][RunFailed => Issued' = Issued /\ RunFailed']_vars

\* The job-creation call was rejected after the edit request succeeded:
\* the run has failed with one request of each kind issued and no fetch.
C13_Witness ==
    /\ veo.pc = "threw" /\ veo.cause # Null /\ Val(veo.cause).status = "RESOURCE_EXHAUSTED"
    /\ Issued = <<1, 1, 0, 0>>

\* C14: handleFileChange with a file whose type is not the active mode's,
\* from the file input or from a drop, sets the validation message of the
\* mode and nothing else: the assets of both modes, the loading flag, the
\* progress label, the mode and the credential status stay as they are,
\* no object URL is created or revoked and the runs are left alone.
C14_MismatchOnlySetsError ==
    [][\A file \in Files :
          fileType(file) # mode /\ (InputChange(Some(file)) \/ Drop(Some(file)))
          => /\ error' = Some(IF mode = "image" THEN ErrValidationImage
                              ELSE ErrValidationVideo)
             /\ UNCHANGED <<originalImage, processedImageUrl, originalVideo,
                            processedVideoUrl, isLoading, videoLoadingMessage, mode,
                            apiKeyStatus, liveUrls, runs>>]_vars

\* A file that is no video was offered in video mode with a credential
\* selected: the message is shown over the uploader.
C14_Witness ==
    /\ mode = "video" /\ UploaderShown /\ error = Some(ErrValidationVideo)
    /\ apiKeyStatus = "selected" /\ liveUrls = {}

\* The stem of a name: the name without its final extension, the whole name
\* when it holds no dot.
Stem(name) ==
    LET dots == {i \in 1..Len(name) : name[i] = "."} IN
    IF dots = {} THEN name
    ELSE SubSeq(name, 1, (CHOOSE i \in dots : \A j \in dots : j <= i) - 1)

\* C15: the download name of a video result is 'watermark-removed-', the
\* stem of the original's name and '.mp4', where the stem of a name without
\* a dot is the whole name; the download name of an image result is
\* 'watermark-removed-' and the original's name unchanged.
C15_DownloadNames ==
    download.pc = "rendered" =>
        download.fileName =
            Some(IF download.view = "image" THEN NamePrefix \o download.name
                 ELSE NamePrefix \o Stem(download.name) \o Mp4)

\* C16: in one call of extractFirstFrame cleanup runs at most once and
\* resolve or reject is called at most once, in whatever order the seeked
\* event, the error event and the rejection of play() arrive.
C16_CompletesOnce ==
    extraction.pc = "started" => extraction.cleanups <= 1 /\ extraction.settles <= 1

\* C17: whenever extractFirstFrame calls resolve or reject the video is
\* paused, its source removed and the object URL revoked: a settled call
\* holds no live URL, on the success path and on the three failure paths.
C17_ReleasedBeforeSettled ==
    extraction.pc = "started" =>
        /\ ~extraction.dirty
        /\ extraction.settles > 0 => extraction.cleanups > 0
        /\ extraction.promise # Null =>
              ~extraction.urlLive /\ ~extraction.src /\ extraction.paused

\* The call resolved with a frame after one cleanup.
C17_Witness ==
    /\ extraction.pc = "started" /\ extraction.promise # Null
    /\ Val(extraction.promise).kind = "frame"
    /\ extraction.cleanups = 1 /\ ~extraction.urlLive

\* C18: the promise is resolved with a frame only by the seeked handler,
\* for the seek onloadeddata requested once the data was loaded; the frame
\* is drawn at a position after 0, and its width and height are the
\* video's native ones.
C18_FrameAfterSeek ==
    /\ [](extraction.pc = "started" /\ extraction.promise # Null
          /\ Val(extraction.promise).kind = "frame" =>
            /\ Val(extraction.promise).at > 0
            /\ Val(extraction.promise).width = extraction.native[1]
            /\ Val(extraction.promise).height = extraction.native[2]
            /\ extraction.requested)
    /\ [][extraction.pc = "started" /\ extraction'.promise # extraction.promise
          /\ Val(extraction'.promise).kind = "frame"
          => Seeked /\ extraction.loaded /\ extraction.requested
             /\ Val(extraction'.promise).at = extraction.currentTime
             /\ extraction.currentTime >= seekPosition(SeekOffset, extraction.duration)]_vars

\* A frame of a wide video was captured while the video was playing on
\* past the seek offset.
C18_Witness ==
    /\ extraction.pc = "started" /\ extraction.promise # Null
    /\ Val(extraction.promise).kind = "frame"
    /\ Val(extraction.promise).width = MaxDim
    /\ Val(extraction.promise).at > SeekOffset
    /\ extraction.play = "fulfilled"

\* C19: every object URL that was created and not revoked is the URL of an
\* original asset or of the generated video the state holds.
C19_NoUnreferencedUrl == liveUrls \subseteq HeldUrls

\* C20: the loading flag is set exactly while a run is in flight, and no
\* second run is in flight next to an earlier one.
C20_SingleRun ==
    /\ isLoading <=> runs # EmptyBag
    /\ BagCardinality(runs) <= 1

\* C21: a processed output and an error message are never present
\* together: while error is set both processedImageUrl and
\* processedVideoUrl are null.
C21_ErrorExcludesOutput ==
    error # Null => processedImageUrl = Null /\ processedVideoUrl = Null

\* The run has ended in succeeded or in failed: nothing is in flight, the
\* loading flag is cleared, the progress label is empty, and either an
\* output is shown or an error message.
Terminated ==
    /\ runs = EmptyBag /\ ~isLoading /\ videoLoadingMessage = ""
    /\ (error # Null) # (processedImageUrl # Null \/ processedVideoUrl # Null)

InLoop(v) == v.pc \in {"sleeping", "polling"}

\* C22: when every awaited operation answers and the job reports done in
\* the end, a started run ends, and stays, in succeeded or failed with the
\* loading flag cleared and the label emptied; the poll loop goes on after
\* every answer that does not report done, however many came before, and
\* is left only by an answer that reports done or by a failed query.
C22_RunTerminates ==
    /\ <>[]Terminated
    /\ [][/\ \A op \in Operations :
               VeoPollAnswers(op) /\ ~op.done => veo'.pc = "sleeping"
          /\ veo.pc # "idle" /\ InLoop(veo) /\ ~InLoop(veo')
             => \/ \E op \in Operations : op.done /\ VeoPollAnswers(op)
                \/ \E e \in RemoteErrors : VeoPollRejects(e)]_vars

\* A video run has ended in succeeded after as many status queries as the
\* bound allows.
C22_Witness ==
    /\ Terminated /\ processedVideoUrl # Null
    /\ veo.pc = "returned" /\ veo.queries = MaxPolls

====
